---- MODULE Spec2Model ----
(***************************************************************************)
(* The chat server of src/src/main.rs (run_server): the accept loop, the   *)
(* per-connection session task, its write task (private_sender_task), the  *)
(* user_senders registry behind a std::sync::Mutex and the messages table. *)
(*                                                                         *)
(* Strings are sequences of characters; the literal pieces of a format!    *)
(* string are kept as one element each.                                    *)
(***************************************************************************)
EXTENDS Integers, Sequences, FiniteSets, TLC

\* Bounds of the model.
MaxConn == 2        \* connections the listener accepts
MaxInbound == 3     \* inbound events (frames, errors, ends of stream) read from
                    \* all connections together

Conns == 1..MaxConn
NoConn == 0                     \* no connection: an absent map entry, None
NULL == <<"NULL">>              \* SQL NULL
NoChat == [kind |-> "None"]     \* no ChatMessage in scope
NoResult == [query |-> "none", keyword |-> <<>>, rows |-> <<>>]
                                \* the client has printed no query result

----------------------------------------------------------------------------
\* Strings (str::trim, str::starts_with, str::splitn of the standard library)

IsWhitespace(c) == c \in {" ", "\t", "\n"}

RECURSIVE TrimStart(_)
TrimStart(s) ==
    IF s = <<>> THEN s
    ELSE IF IsWhitespace(Head(s)) THEN TrimStart(Tail(s)) ELSE s

RECURSIVE TrimEnd(_)
TrimEnd(s) ==
    IF s = <<>> THEN s
    ELSE IF IsWhitespace(s[Len(s)]) THEN TrimEnd(SubSeq(s, 1, Len(s) - 1))
    ELSE s

Trim(s) == TrimEnd(TrimStart(s))

StartsWith(s, p) == Len(s) >= Len(p) /\ SubSeq(s, 1, Len(p)) = p

\* s.splitn(2, ' ').collect(): one item when s holds no space, else the text
\* before the first space and the whole rest after it.
Splitn2(s) ==
    LET spaces == {i \in 1..Len(s) : s[i] = " "}
    IN  IF spaces = {} THEN <<s>>
        ELSE LET i == CHOOSE k \in spaces : \A j \in spaces : k <= j
             IN  <<SubSeq(s, 1, i - 1), SubSeq(s, i + 1, Len(s))>>

MsgPrefix == <<"/", "m", "s", "g", " ">>

\* text[5..]
AfterPrefix(text) == SubSeq(text, Len(MsgPrefix) + 1, Len(text))

----------------------------------------------------------------------------
\* Inputs: what clients put on the wire.

\* Usernames: "a" and the empty string (the first frame is taken verbatim).
Names == {<<"a">>, <<>>}

PM(target, body) == MsgPrefix \o target \o <<" ">> \o body

Texts ==
    { <<"h">>,                      \* "h"
      PM(<<"a">>, <<"x">>),         \* "/msg a x"
      PM(<<>>, <<" ">>),            \* "/msg   ": empty target, blank body
      MsgPrefix \o <<"a">> }        \* "/msg a": no second token

\* Local::now().format("%Y-%m-%d %H:%M:%S"), with the clock at sec seconds past
\* the minute. The model's clock ticks once per frame read.
FormatNow(sec) == <<"2025-01-01 00:00:0", sec>>

\* What the build makes of the second user_senders.lock() in the else branch of
\* the if-let whose scrutinee holds the first guard (main.rs:139-144): the guard
\* is dropped before the else branch (edition 2024 scoping), or it is still
\* held and locking again on the same thread "might panic or deadlock".
Builds == {"guard_dropped", "relock_deadlocks", "relock_panics"}

----------------------------------------------------------------------------
\* ChatMessage

Public(from, content, timestamp) ==
    [kind |-> "Public", from |-> from, content |-> content,
     timestamp |-> timestamp]

Private(from, to, content, timestamp) ==
    [kind |-> "Private", from |-> from, to |-> to, content |-> content,
     timestamp |-> timestamp]

System(msg) == [kind |-> "System", msg |-> msg]

to_string(m) ==
    CASE m.kind = "Public" ->
            <<"[">> \o m.timestamp \o <<"][">> \o m.from \o <<"]: ">>
                \o m.content
      [] m.kind = "Private" ->
            <<"[">> \o m.timestamp \o <<"][Private from ">> \o m.from
                \o <<" to ">> \o m.to \o <<"]: ">> \o m.content
      [] m.kind = "System" -> m.msg

NotFoundText(target) == <<"[Error] User '">> \o target \o <<"' not found.">>

\* id INTEGER PRIMARY KEY AUTOINCREMENT
NextId(table) ==
    IF table = <<>> THEN 1
    ELSE 1 + (CHOOSE n \in {table[i].id : i \in 1..Len(table)} :
                \A i \in 1..Len(table) : table[i].id <= n)

\* The table after self.log_to_db(conn); ok is whether conn.execute succeeded
\* (its Result is discarded).
log_to_db(m, table, ok) ==
    CASE m.kind = "Public" ->
            IF ok
            THEN Append(table, [id |-> NextId(table), from_user |-> m.from,
                                to_user |-> NULL, content |-> m.content,
                                timestamp |-> m.timestamp, is_private |-> 0])
            ELSE table
      [] m.kind = "Private" ->
            IF ok
            THEN Append(table, [id |-> NextId(table), from_user |-> m.from,
                                to_user |-> m.to, content |-> m.content,
                                timestamp |-> m.timestamp, is_private |-> 1])
            ELSE table
      [] OTHER -> table

----------------------------------------------------------------------------
VARIABLES
    build,          \* which of Builds this binary is ("unobserved" until the
                    \* else branch is first entered)
    main_pc,        \* the accept loop: "accept", "handshake" or "exited"
    nconn,          \* connections accepted so far
    pc,             \* each connection's session task
    username,       \* each session's username
    frames_read,    \* inbound events taken off the connections so far
    last,           \* the latest of them: whose, what kind, and whether the
                    \* INSERT it led to succeeded
    chat,           \* the ChatMessage of the session's current loop iteration
    persisted,      \* whether that chat's INSERT succeeded
    writer,         \* each session's private_sender_task
    rx_user,        \* each session's unbounded channel (frames queued)
    ws_out,         \* frames each write task has written to its client
    user_senders,   \* username -> connection whose tx_user the map holds
                    \* (NoConn: no entry)
    guard_holder,   \* session left holding the user_senders guard, or NoConn
    poisoned,       \* user_senders' mutex is poisoned
    messages,       \* the messages table
    origin,         \* history: for each record of the table (msg), each frame
                    \* queued (rx) and each frame written (out), the session
                    \* whose inbound frame produced it and that frame's number
    result          \* what the client's last /history or /search printed

vars == <<build, main_pc, nconn, pc, username, frames_read, last, chat,
          persisted, writer, rx_user, ws_out, user_senders, guard_holder,
          poisoned, messages, origin, result>>

Init ==
    /\ build = "unobserved"
    /\ main_pc = "accept"
    /\ nconn = 0
    /\ pc = [c \in Conns |-> "none"]
    /\ username = [c \in Conns |-> <<>>]
    /\ frames_read = 0
    /\ last = [conn |-> NoConn, kind |-> "none", ok |-> FALSE]
    /\ chat = [c \in Conns |-> NoChat]
    /\ persisted = [c \in Conns |-> FALSE]
    /\ writer = [c \in Conns |-> "none"]
    /\ rx_user = [c \in Conns |-> <<>>]
    /\ ws_out = [c \in Conns |-> <<>>]
    /\ user_senders = [n \in Names |-> NoConn]
    /\ guard_holder = NoConn
    /\ poisoned = FALSE
    /\ messages = <<>>
    /\ origin = [msg |-> <<>>, rx |-> [c \in Conns |-> <<>>],
                 out |-> [c \in Conns |-> <<>>]]
    /\ result = NoResult

----------------------------------------------------------------------------
\* Helpers over the state

Running == main_pc # "exited"

\* ws_receiver.next() can yield one more event.
CanNext == Running /\ frames_read < MaxInbound

\* Session c takes an event of this kind off its connection.
Take(c, kind, ok) ==
    /\ frames_read' = frames_read + 1
    /\ last' = [conn |-> c, kind |-> kind, ok |-> ok]

\* HashMap::insert, HashMap::remove, HashMap::get. The map is kept as a function
\* on Names (the only keys ever inserted); NoConn stands for an absent key.
Insert(map, k, v) == [map EXCEPT ![k] = v]
Remove(map, k) == [map EXCEPT ![k] = NoConn]
Get(map, k) == IF k \in DOMAIN map THEN map[k] ELSE NoConn

\* tx_user of connection c is alive: the map still holds it.
HasSender(c) == \E n \in Names : user_senders[n] = c

\* UnboundedSender::send: queued unless the receiver is gone.
Send(queues, c, frame) ==
    IF writer[c] = "running" THEN [queues EXCEPT ![c] = Append(@, frame)]
    ELSE queues

\* The user_senders mutex can be taken and is not poisoned.
LockFree == guard_holder = NoConn /\ ~poisoned

Active(c) == pc[c] \in {"read", "lookup", "else"}

\* History: the origin of what session c produces out of its inbound frame
\* number n.
Tag(c, n) == [conn |-> c, frame |-> n]

\* The number of the inbound frame a ChatMessage was built from (FormatNow).
FrameOf(m) == m.timestamp[2]

----------------------------------------------------------------------------
\* The accept loop (main.rs:95-101)

\* listener.accept().await? returns a stream
Accept ==
    /\ main_pc = "accept"
    /\ nconn < MaxConn
    /\ nconn' = nconn + 1
    /\ main_pc' = "handshake"
    /\ pc' = [pc EXCEPT ![nconn + 1] = "handshake"]
    /\ UNCHANGED <<build, username, frames_read, last, chat, persisted,
                   writer, rx_user, ws_out, user_senders, guard_holder,
                   poisoned, messages, origin, result>>

\* listener.accept().await? returns Err: run_server returns, the process ends
AcceptErr ==
    /\ main_pc = "accept"
    /\ main_pc' = "exited"
    /\ UNCHANGED <<build, nconn, pc, username, frames_read, last, chat,
                   persisted, writer, rx_user, ws_out, user_senders,
                   guard_holder, poisoned, messages, origin, result>>

\* accept_async(stream).await is Ok: the session task is spawned
HandshakeOk ==
    /\ main_pc = "handshake"
    /\ main_pc' = "accept"
    /\ pc' = [pc EXCEPT ![nconn] = "await_name"]
    /\ UNCHANGED <<build, nconn, username, frames_read, last, chat, persisted,
                   writer, rx_user, ws_out, user_senders, guard_holder,
                   poisoned, messages, origin, result>>

\* accept_async(stream).await is Err: unwrap() panics in main, the process ends
HandshakeErr ==
    /\ main_pc = "handshake"
    /\ main_pc' = "exited"
    /\ UNCHANGED <<build, nconn, pc, username, frames_read, last, chat,
                   persisted, writer, rx_user, ws_out, user_senders,
                   guard_holder, poisoned, messages, origin, result>>

----------------------------------------------------------------------------
\* The session task (main.rs:101-160)

\* First frame is Message::Text(name): create the channel, insert tx_user under
\* the name, spawn the write task (main.rs:104-122).
Register(c, name) ==
    /\ CanNext
    /\ pc[c] = "await_name"
    /\ LockFree
    /\ Take(c, "name", FALSE)
    /\ username' = [username EXCEPT ![c] = name]
    /\ user_senders' = Insert(user_senders, name, c)
    /\ writer' = [writer EXCEPT ![c] = "running"]
    /\ pc' = [pc EXCEPT ![c] = "read"]
    /\ UNCHANGED <<build, main_pc, nconn, chat, persisted, rx_user, ws_out,
                   guard_holder, poisoned, messages, origin, result>>

\* NoUsername with the channel registered before the first frame is looked at.
NoUsername_RegistersFirst(c) ==
    /\ CanNext
    /\ pc[c] = "await_name"
    /\ pc' = [pc EXCEPT ![c] = "closed"]
    /\ Take(c, "nonname", FALSE)
    /\ user_senders' = Insert(user_senders, <<>>, c)
    /\ UNCHANGED <<build, main_pc, nconn, username, chat, persisted, writer,
                   rx_user, ws_out, guard_holder, poisoned, messages,
                   origin, result>>

\* First frame is anything else (non-text frame, error, end of stream): return
\* (main.rs:106-109).
NoUsername(c) ==
    /\ CanNext
    /\ pc[c] = "await_name"
    /\ pc' = [pc EXCEPT ![c] = "closed"]
    /\ Take(c, "nonname", FALSE)
    /\ UNCHANGED <<build, main_pc, nconn, username, chat, persisted, writer,
                   rx_user, ws_out, user_senders, guard_holder, poisoned,
                   messages, origin, result>>

\* The read loop can take one more frame.
CanRead(c) == CanNext /\ pc[c] = "read"

\* A text frame that does not start with "/msg ": build Public, log it, print it
\* on the server's stdout (main.rs:146-154). Nothing is sent to any channel.
RecvPublic(c, text, ok) ==
    /\ CanRead(c)
    /\ ~StartsWith(text, MsgPrefix)
    /\ LET m == Public(username[c], text, FormatNow(frames_read))
       IN  messages' = log_to_db(m, messages, ok)
    /\ origin' = IF ok
                 THEN [origin EXCEPT !.msg = Append(@, Tag(c, frames_read))]
                 ELSE origin
    /\ Take(c, "public", ok)
    /\ UNCHANGED <<build, main_pc, nconn, pc, username, chat, persisted,
                   writer, rx_user, ws_out, user_senders, guard_holder,
                   poisoned, result>>

\* RecvPrivate with a failed INSERT ending the read loop instead of being
\* discarded.
RecvPrivate_FailureEndsLoop(c, text, ok) ==
    /\ CanRead(c)
    /\ StartsWith(text, MsgPrefix)
    /\ LET parts == Splitn2(AfterPrefix(text))
       IN  /\ Len(parts) = 2
           /\ LET m == Private(username[c], Trim(parts[1]), Trim(parts[2]),
                               FormatNow(frames_read))
              IN  /\ chat' = [chat EXCEPT ![c] = IF ok THEN m ELSE NoChat]
                  /\ messages' = log_to_db(m, messages, ok)
    /\ origin' = IF ok
                 THEN [origin EXCEPT !.msg = Append(@, Tag(c, frames_read))]
                 ELSE origin
    /\ persisted' = [persisted EXCEPT ![c] = ok]
    /\ Take(c, "private", ok)
    /\ pc' = [pc EXCEPT ![c] = IF ok THEN "lookup" ELSE "join"]
    /\ UNCHANGED <<build, main_pc, nconn, username, writer, rx_user, ws_out,
                   user_senders, guard_holder, poisoned, result>>

\* RecvPrivate with the INSERT left out.
RecvPrivate_NotLogged(c, text, ok) ==
    /\ CanRead(c)
    /\ StartsWith(text, MsgPrefix)
    /\ LET parts == Splitn2(AfterPrefix(text))
       IN  /\ Len(parts) = 2
           /\ chat' = [chat EXCEPT ![c] =
                         Private(username[c], Trim(parts[1]), Trim(parts[2]),
                                 FormatNow(frames_read))]
    /\ persisted' = [persisted EXCEPT ![c] = ok]
    /\ Take(c, "private", ok)
    /\ pc' = [pc EXCEPT ![c] = "lookup"]
    /\ UNCHANGED <<build, main_pc, nconn, username, writer, rx_user, ws_out,
                   user_senders, guard_holder, poisoned, messages, origin,
                   result>>

\* "/msg <target> <body>": build Private and log it (main.rs:127-138); the
\* lookup follows.
RecvPrivate(c, text, ok) ==
    /\ CanRead(c)
    /\ StartsWith(text, MsgPrefix)
    /\ LET parts == Splitn2(AfterPrefix(text))
       IN  /\ Len(parts) = 2
           /\ LET m == Private(username[c], Trim(parts[1]), Trim(parts[2]),
                               FormatNow(frames_read))
              IN  /\ chat' = [chat EXCEPT ![c] = m]
                  /\ messages' = log_to_db(m, messages, ok)
    /\ origin' = IF ok
                 THEN [origin EXCEPT !.msg = Append(@, Tag(c, frames_read))]
                 ELSE origin
    /\ persisted' = [persisted EXCEPT ![c] = ok]
    /\ Take(c, "private", ok)
    /\ pc' = [pc EXCEPT ![c] = "lookup"]
    /\ UNCHANGED <<build, main_pc, nconn, username, writer, rx_user, ws_out,
                   user_senders, guard_holder, poisoned, result>>

\* RecvMalformed with the text logged as a Public message.
RecvMalformed_LoggedAsPublic(c, text) ==
    /\ CanRead(c)
    /\ StartsWith(text, MsgPrefix)
    /\ Len(Splitn2(AfterPrefix(text))) # 2
    /\ LET m == Public(username[c], text, FormatNow(frames_read))
       IN  messages' = log_to_db(m, messages, TRUE)
    /\ origin' = [origin EXCEPT !.msg = Append(@, Tag(c, frames_read))]
    /\ Take(c, "malformed", FALSE)
    /\ UNCHANGED <<build, main_pc, nconn, pc, username, chat, persisted,
                   writer, rx_user, ws_out, user_senders, guard_holder,
                   poisoned, result>>

\* "/msg " with no second token: parts.len() != 2, nothing happens
\* (main.rs:128-129, 145).
RecvMalformed(c, text) ==
    /\ CanRead(c)
    /\ StartsWith(text, MsgPrefix)
    /\ Len(Splitn2(AfterPrefix(text))) # 2
    /\ Take(c, "malformed", FALSE)
    /\ UNCHANGED <<build, main_pc, nconn, pc, username, chat, persisted,
                   writer, rx_user, ws_out, user_senders, guard_holder,
                   poisoned, messages, origin, result>>

\* A frame that is not Message::Text is skipped (main.rs:125).
RecvNonText(c) ==
    /\ CanRead(c)
    /\ Take(c, "nontext", FALSE)
    /\ UNCHANGED <<build, main_pc, nconn, pc, username, chat, persisted,
                   writer, rx_user, ws_out, user_senders, guard_holder,
                   poisoned, messages, origin, result>>

\* ws_receiver.next() is None or Some(Err): the loop ends and the task awaits
\* the write task (main.rs:124, 158).
RecvEnd(c) ==
    /\ CanRead(c)
    /\ pc' = [pc EXCEPT ![c] = "join"]
    /\ Take(c, "end", FALSE)
    /\ UNCHANGED <<build, main_pc, nconn, username, chat, persisted, writer,
                   rx_user, ws_out, user_senders, guard_holder, poisoned,
                   messages, origin, result>>

\* user_senders.lock().unwrap().get(target) is Some(tx): tx.send(rendered chat)
\* (main.rs:139-140).
LookupFound(c) ==
    /\ Running
    /\ pc[c] = "lookup"
    /\ LockFree
    /\ Get(user_senders, chat[c].to) # NoConn
    /\ rx_user' = Send(rx_user, Get(user_senders, chat[c].to),
                       to_string(chat[c]))
    /\ origin' = [origin EXCEPT !.rx = Send(@, Get(user_senders, chat[c].to),
                                            Tag(c, FrameOf(chat[c])))]
    /\ pc' = [pc EXCEPT ![c] = "read"]
    /\ chat' = [chat EXCEPT ![c] = NoChat]
    /\ persisted' = [persisted EXCEPT ![c] = FALSE]
    /\ UNCHANGED <<build, main_pc, nconn, username, frames_read, last, writer,
                   ws_out, user_senders, guard_holder, poisoned, messages,
                   result>>

\* get(target) is None: the else branch is entered, with the guard of the
\* scrutinee dropped or still held, as the build has it (main.rs:139, 141).
LookupAbsent(c, b) ==
    /\ Running
    /\ pc[c] = "lookup"
    /\ LockFree
    /\ Get(user_senders, chat[c].to) = NoConn
    /\ build \in {"unobserved", b}
    /\ build' = b
    /\ guard_holder' = IF b = "guard_dropped" THEN NoConn ELSE c
    /\ pc' = [pc EXCEPT ![c] = "else"]
    /\ UNCHANGED <<main_pc, nconn, username, frames_read, last, chat,
                   persisted, writer, rx_user, ws_out, user_senders, poisoned,
                   messages, origin, result>>

\* NotifySender with the notice logged like a chat message.
NotifySender_LogsNotice(c) ==
    /\ Running
    /\ pc[c] = "else"
    /\ LockFree
    /\ LET err == System(NotFoundText(chat[c].to))
           own == Get(user_senders, username[c])
       IN  /\ rx_user' = IF own = NoConn THEN rx_user
                          ELSE Send(rx_user, own, to_string(err))
           /\ origin' = [origin EXCEPT
                           !.msg = Append(@, Tag(c, FrameOf(chat[c]))),
                           !.rx = IF own = NoConn THEN @
                                  ELSE Send(@, own, Tag(c, FrameOf(chat[c])))]
           /\ messages' = Append(messages,
                                 [id |-> NextId(messages),
                                  from_user |-> <<"System">>,
                                  to_user |-> NULL, content |-> err.msg,
                                  timestamp |-> chat[c].timestamp,
                                  is_private |-> 0])
    /\ pc' = [pc EXCEPT ![c] = "read"]
    /\ chat' = [chat EXCEPT ![c] = NoChat]
    /\ persisted' = [persisted EXCEPT ![c] = FALSE]
    /\ UNCHANGED <<build, main_pc, nconn, username, frames_read, last, writer,
                   ws_out, user_senders, guard_holder, poisoned, result>>

\* The else branch takes the lock: get(&username).map(|tx| tx.send(System))
\* (main.rs:142-143).
NotifySender(c) ==
    /\ Running
    /\ pc[c] = "else"
    /\ LockFree
    /\ LET err == System(NotFoundText(chat[c].to))
           own == Get(user_senders, username[c])
       IN  /\ rx_user' = IF own = NoConn THEN rx_user
                          ELSE Send(rx_user, own, to_string(err))
           /\ origin' = IF own = NoConn THEN origin
                         ELSE [origin EXCEPT
                                 !.rx = Send(@, own, Tag(c, FrameOf(chat[c])))]
    /\ pc' = [pc EXCEPT ![c] = "read"]
    /\ chat' = [chat EXCEPT ![c] = NoChat]
    /\ persisted' = [persisted EXCEPT ![c] = FALSE]
    /\ UNCHANGED <<build, main_pc, nconn, username, frames_read, last, writer,
                   ws_out, user_senders, guard_holder, poisoned, messages,
                   result>>

\* The else branch locks the mutex its own thread holds and the lock panics:
\* the task unwinds, and dropping the held guard poisons the mutex. (Where the
\* lock blocks instead, the task never takes another step.)
RelockPanic(c) ==
    /\ Running
    /\ pc[c] = "else"
    /\ guard_holder = c
    /\ build = "relock_panics"
    /\ pc' = [pc EXCEPT ![c] = "panicked"]
    /\ guard_holder' = NoConn
    /\ poisoned' = TRUE
    /\ chat' = [chat EXCEPT ![c] = NoChat]
    /\ persisted' = [persisted EXCEPT ![c] = FALSE]
    /\ UNCHANGED <<build, main_pc, nconn, username, frames_read, last, writer,
                   rx_user, ws_out, user_senders, messages, origin, result>>

\* The session is about to call user_senders.lock().unwrap(): with a username
\* frame in hand, before the lookup, or after the write task has been joined.
AtLock(c) ==
    \/ pc[c] = "await_name" /\ CanNext
    \/ pc[c] = "lookup"
    \/ pc[c] = "join" /\ writer[c] = "exited"

\* lock().unwrap() on the poisoned mutex panics the task (main.rs:113, 139,
\* 159).
LockPoisoned(c) ==
    /\ Running
    /\ poisoned
    /\ guard_holder = NoConn
    /\ AtLock(c)
    /\ IF pc[c] = "await_name" THEN Take(c, "name", FALSE)
       ELSE UNCHANGED <<frames_read, last>>
    /\ pc' = [pc EXCEPT ![c] = "panicked"]
    /\ chat' = [chat EXCEPT ![c] = NoChat]
    /\ persisted' = [persisted EXCEPT ![c] = FALSE]
    /\ UNCHANGED <<build, main_pc, nconn, username, writer, rx_user, ws_out,
                   user_senders, guard_holder, poisoned, messages, origin,
                   result>>

\* private_sender_task.await has returned: remove(&username) (main.rs:158-159).
Teardown(c) ==
    /\ Running
    /\ pc[c] = "join"
    /\ writer[c] = "exited"
    /\ LockFree
    /\ user_senders' = Remove(user_senders, username[c])
    /\ pc' = [pc EXCEPT ![c] = "closed"]
    /\ UNCHANGED <<build, main_pc, nconn, username, frames_read, last, chat,
                   persisted, writer, rx_user, ws_out, guard_holder, poisoned,
                   messages, origin, result>>

----------------------------------------------------------------------------
\* The write task, private_sender_task (main.rs:115-122)

\* WriterSend taking the frame queued last instead of the one queued first.
WriterSend_NewestFirst(c) ==
    /\ Running
    /\ writer[c] = "running"
    /\ rx_user[c] # <<>>
    /\ LET n == Len(rx_user[c])
       IN  /\ ws_out' = [ws_out EXCEPT ![c] = Append(@, rx_user[c][n])]
           /\ rx_user' = [rx_user EXCEPT ![c] = SubSeq(@, 1, n - 1)]
           /\ origin' = [origin EXCEPT
                           !.out[c] = Append(@, origin.rx[c][n]),
                           !.rx[c] = SubSeq(@, 1, n - 1)]
    /\ UNCHANGED <<build, main_pc, nconn, pc, username, frames_read, last,
                   chat, persisted, writer, user_senders, guard_holder,
                   poisoned, messages, result>>

\* rx_user.recv() yields a frame and ws_sender.send(msg) is Ok
WriterSend(c) ==
    /\ Running
    /\ writer[c] = "running"
    /\ rx_user[c] # <<>>
    /\ ws_out' = [ws_out EXCEPT ![c] = Append(@, Head(rx_user[c]))]
    /\ rx_user' = [rx_user EXCEPT ![c] = Tail(@)]
    /\ origin' = [origin EXCEPT !.out[c] = Append(@, Head(origin.rx[c])),
                                !.rx[c] = Tail(@)]
    /\ UNCHANGED <<build, main_pc, nconn, pc, username, frames_read, last,
                   chat, persisted, writer, user_senders, guard_holder,
                   poisoned, messages, result>>

\* ws_sender.send(msg) is Err: break; the task ends and rx_user is dropped with
\* whatever it still holds
WriterSendErr(c) ==
    /\ Running
    /\ writer[c] = "running"
    /\ rx_user[c] # <<>>
    /\ writer' = [writer EXCEPT ![c] = "exited"]
    /\ rx_user' = [rx_user EXCEPT ![c] = <<>>]
    /\ origin' = [origin EXCEPT !.rx[c] = <<>>]
    /\ UNCHANGED <<build, main_pc, nconn, pc, username, frames_read, last,
                   chat, persisted, ws_out, user_senders, guard_holder,
                   poisoned, messages, result>>

\* rx_user.recv() is None: the channel is empty and every sender is dropped
WriterClosed(c) ==
    /\ Running
    /\ writer[c] = "running"
    /\ rx_user[c] = <<>>
    /\ ~HasSender(c)
    /\ writer' = [writer EXCEPT ![c] = "exited"]
    /\ UNCHANGED <<build, main_pc, nconn, pc, username, frames_read, last,
                   chat, persisted, rx_user, ws_out, user_senders,
                   guard_holder, poisoned, messages, origin, result>>

----------------------------------------------------------------------------
Next ==
    \/ Accept
    \/ AcceptErr
    \/ HandshakeOk
    \/ HandshakeErr
    \/ \E c \in Conns, name \in Names : Register(c, name)
    \/ \E c \in Conns : NoUsername(c)
    \/ \E c \in Conns, text \in Texts, ok \in BOOLEAN :
            RecvPublic(c, text, ok)
    \/ \E c \in Conns, text \in Texts, ok \in BOOLEAN :
            RecvPrivate(c, text, ok)
    \/ \E c \in Conns, text \in Texts : RecvMalformed(c, text)
    \/ \E c \in Conns : RecvNonText(c)
    \/ \E c \in Conns : RecvEnd(c)
    \/ \E c \in Conns : LookupFound(c)
    \/ \E c \in Conns, b \in Builds : LookupAbsent(c, b)
    \/ \E c \in Conns : NotifySender(c)
    \/ \E c \in Conns : RelockPanic(c)
    \/ \E c \in Conns : LockPoisoned(c)
    \/ \E c \in Conns : Teardown(c)
    \/ \E c \in Conns : WriterSend(c)
    \/ \E c \in Conns : WriterSendErr(c)
    \/ \E c \in Conns : WriterClosed(c)

Spec == Init /\ [][Next]_vars

\* The tasks of the runtime are scheduled fairly: a session task or a write
\* task that can take a step takes it. What clients and the network do (frames,
\* errors, handshakes, the outcome of a write) is under no such obligation.
Fairness ==
    \A c \in Conns :
        /\ WF_vars(Teardown(c))
        /\ WF_vars(WriterSend(c) \/ WriterSendErr(c))
        /\ WF_vars(WriterClosed(c))
        /\ WF_vars(LookupFound(c))
        /\ WF_vars(\E b \in Builds : LookupAbsent(c, b))
        /\ WF_vars(NotifySender(c))
        /\ WF_vars(RelockPanic(c))

LiveSpec == Init /\ [][Next]_vars /\ Fairness

----------------------------------------------------------------------------
\* The client's queries on the table (main.rs:196-241)

MaxRows == 15       \* records in the table the queries are run on

HistoryLimit == 10  \* LIMIT of the /history statement
SearchLimit == 10   \* LIMIT of the /search statement

PatternLen == 3     \* the contents of the records repeat with this period

Contents == {<<"a", "b">>, <<"c">>}

\* The table n successful INSERTs leave behind, the k-th with the content the
\* pattern has for k.
RECURSIVE TableOf(_, _)
TableOf(n, pattern) ==
    IF n = 0 THEN <<>>
    ELSE log_to_db(Public(<<"a">>, pattern[1 + (n % PatternLen)],
                          FormatNow(n)),
                   TableOf(n - 1, pattern), TRUE)

Tables ==
    {TableOf(n, pattern) :
        n \in 0..MaxRows, pattern \in [1..PatternLen -> Contents]}

SearchPrefix == <<"/", "s", "e", "a", "r", "c", "h", " ">>

\* The lines typed: "/search " and a keyword.
SearchLines ==
    {SearchPrefix \o kw : kw \in {<<"a">>, <<"B">>, <<"c", " ">>, <<"_">>,
                                   <<"z">>}}

\* SQLite's LIKE folds the case of ASCII letters.
UpperCase == <<"A", "B", "C", "D", "E", "F", "G", "H", "I", "J", "K", "L", "M",
               "N", "O", "P", "Q", "R", "S", "T", "U", "V", "W", "X", "Y", "Z">>
LowerCase == <<"a", "b", "c", "d", "e", "f", "g", "h", "i", "j", "k", "l", "m",
               "n", "o", "p", "q", "r", "s", "t", "u", "v", "w", "x", "y", "z">>

Fold(ch) ==
    IF \E k \in 1..Len(UpperCase) : UpperCase[k] = ch
    THEN LowerCase[CHOOSE k \in 1..Len(UpperCase) : UpperCase[k] = ch]
    ELSE ch

\* s LIKE pattern, with no ESCAPE: % is any run of characters, _ is any one
\* character, anything else is itself up to the case of ASCII letters.
RECURSIVE Like(_, _)
Like(pattern, s) ==
    IF pattern = <<>> THEN s = <<>>
    ELSE IF Head(pattern) = "%"
         THEN \/ Like(Tail(pattern), s)
              \/ s # <<>> /\ Like(pattern, Tail(s))
    ELSE IF s = <<>> THEN FALSE
    ELSE IF Head(pattern) = "_" THEN Like(Tail(pattern), Tail(s))
    ELSE Fold(Head(pattern)) = Fold(Head(s)) /\ Like(Tail(pattern), Tail(s))

Rows(table) == {table[i] : i \in 1..Len(table)}

\* ORDER BY id DESC
RECURSIVE OrderByIdDesc(_)
OrderByIdDesc(rows) ==
    IF rows = {} THEN <<>>
    ELSE LET top == CHOOSE r \in rows : \A q \in rows : q.id <= r.id
         IN  <<top>> \o OrderByIdDesc(rows \ {top})

\* LIMIT n
Limit(rows, n) == SubSeq(rows, 1, IF Len(rows) < n THEN Len(rows) ELSE n)

\* SelectHistory returning the oldest rows first.
SelectHistory_OldestFirst(table) == Limit(table, HistoryLimit)

\* SELECT ... FROM messages ORDER BY id DESC LIMIT 10 (main.rs:199)
SelectHistory(table) == Limit(OrderByIdDesc(Rows(table)), HistoryLimit)

\* SELECT ... FROM messages WHERE content LIKE ? ORDER BY id DESC LIMIT 10
\* (main.rs:223)
SelectSearch(table, query) ==
    Limit(OrderByIdDesc({r \in Rows(table) : Like(query, r.content)}),
          SearchLimit)

server_vars == <<build, main_pc, nconn, pc, username, frames_read, last, chat,
                 persisted, writer, rx_user, ws_out, user_senders,
                 guard_holder, poisoned, origin>>

\* The server has logged some messages and taken no other step that matters
\* to a query; the client has typed nothing yet.
QueryInit ==
    /\ build = "unobserved"
    /\ main_pc = "accept"
    /\ nconn = 0
    /\ pc = [c \in Conns |-> "none"]
    /\ username = [c \in Conns |-> <<>>]
    /\ frames_read = 0
    /\ last = [conn |-> NoConn, kind |-> "none", ok |-> FALSE]
    /\ chat = [c \in Conns |-> NoChat]
    /\ persisted = [c \in Conns |-> FALSE]
    /\ writer = [c \in Conns |-> "none"]
    /\ rx_user = [c \in Conns |-> <<>>]
    /\ ws_out = [c \in Conns |-> <<>>]
    /\ user_senders = [n \in Names |-> NoConn]
    /\ guard_holder = NoConn
    /\ poisoned = FALSE
    /\ messages \in Tables
    /\ origin = [msg |-> <<>>, rx |-> [c \in Conns |-> <<>>],
                 out |-> [c \in Conns |-> <<>>]]
    /\ result = NoResult

\* The line starts with "/history" (main.rs:196-217).
History ==
    /\ result = NoResult
    /\ result' = [query |-> "history", keyword |-> <<>>,
                  rows |-> SelectHistory(messages)]
    /\ UNCHANGED <<server_vars, messages>>

\* The line starts with "/search " (main.rs:218-241).
Search(line) ==
    /\ result = NoResult
    /\ StartsWith(line, SearchPrefix)
    /\ LET keyword == Trim(SubSeq(line, Len(SearchPrefix) + 1, Len(line)))
           query == <<"%">> \o keyword \o <<"%">>
       IN  result' = [query |-> "search", keyword |-> keyword,
                      rows |-> SelectSearch(messages, query)]
    /\ UNCHANGED <<server_vars, messages>>

QueryNext ==
    \/ History
    \/ \E line \in SearchLines : Search(line)

QuerySpec == QueryInit /\ [][QueryNext]_vars

----------------------------------------------------------------------------
\* Properties

\* This step took an event of this kind off connection c.
Took(c, kind) ==
    /\ frames_read' = frames_read + 1
    /\ last'.conn = c
    /\ last'.kind = kind

\* The frame is queued on connection t's channel and nothing else is.
QueuedOnlyOn(t, frame) == rx_user' = [rx_user EXCEPT ![t] = Append(@, frame)]

\* The table holds a record of this Private message.
Recorded(m) ==
    \E i \in 1..Len(messages) :
        /\ messages[i].is_private = 1
        /\ messages[i].from_user = m.from
        /\ messages[i].to_user = m.to
        /\ messages[i].content = m.content
        /\ messages[i].timestamp = m.timestamp

\* C1: every Public send of a session is queued on the channel of every session
\* in the registry at that moment, the sender's own included.
C1_PublicBroadcast ==
    [][\A c \in Conns :
        Took(c, "public") =>
            \E text \in Texts :
                LET frame == to_string(Public(username[c], text,
                                              FormatNow(frames_read)))
                IN  \A n \in Names :
                        user_senders[n] # NoConn =>
                            rx_user'[user_senders[n]] =
                                Append(rx_user[user_senders[n]], frame)]_vars

\* C2: a "/msg T body" whose T is in the registry at the lookup is queued on the
\* channel registered under T and on no other, and the record appended for it
\* has is_private = 1 and to_user = T.
C2_PrivateOnlyToTarget ==
    [][\A c \in Conns :
        /\ (Took(c, "private") /\ last'.ok) =>
                /\ Len(messages') = Len(messages) + 1
                /\ messages'[Len(messages')].is_private = 1
                /\ messages'[Len(messages')].to_user = chat'[c].to
        /\ (pc[c] = "lookup" /\ pc'[c] = "read") =>
                QueuedOnlyOn(Get(user_senders, chat[c].to),
                             to_string(chat[c]))]_vars

\* C3: a "/msg T body" whose T is not in the registry queues exactly one
\* "[Error] User 'T' not found." frame, on the sender's own channel and on no
\* other, and the sender goes on to read its next frame: it enters the else
\* branch able to take the lock, and leaves it for the read loop.
C3_NotFoundNotice ==
    [][\A c \in Conns :
        /\ pc'[c] = "else" => guard_holder' # c
        /\ (pc[c] = "else" /\ pc'[c] # "else") =>
                /\ pc'[c] = "read"
                /\ QueuedOnlyOn(c, NotFoundText(chat[c].to))]_vars

\* C4: a Private send whose target is not in the registry at the lookup has no
\* record in the messages table.
C4_NoRecordForAbsentTarget ==
    \A c \in Conns : pc[c] = "else" => ~Recorded(chat[c])

\* C5: once a session holds the entry of its username and for as long as it is
\* Active, the entry stays its own, unless a later registration of the same
\* name replaces it; in particular the teardown of a session that registered
\* the name earlier does not touch it.
C5_LastRegistrationWins ==
    [][\A s \in Conns :
        (Active(s) /\ user_senders[username[s]] = s /\ Active(s)') =>
            \/ user_senders'[username[s]] = s
            \/ \E o \in Conns \ {s} :
                    /\ Took(o, "name")
                    /\ user_senders'[username[s]] = o]_vars

\* One of the session's own tasks can take a step: its write task, or its
\* session task past private_sender_task.await.
OwnStepEnabled(c) ==
    \/ ENABLED WriterSend(c)
    \/ ENABLED WriterSendErr(c)
    \/ ENABLED WriterClosed(c)
    \/ ENABLED Teardown(c)
    \/ ENABLED LockPoisoned(c)

\* C6: a session whose read loop has ended goes on, with no step of any other
\* session, until its write task has exited and its entry is removed: while it
\* is in teardown, one of its own tasks can always take a step (leaving aside
\* the process having ended and the registry lock being stuck).
C6_TeardownCompletes ==
    \A c \in Conns :
        (pc[c] = "join" /\ Running /\ guard_holder = NoConn) =>
            OwnStepEnabled(c)

\* C7: no per-connection event stops the server: the accept loop is never left.
C7_ServerKeepsAccepting == main_pc # "exited"

\* C8: the teardown of one session removes or changes no other session's
\* registry entry, closes no other session's channel and leaves every other
\* Active session Active.
C8_TeardownLeavesOthersAlone ==
    [][\A c \in Conns :
        (pc[c] = "join" /\ pc'[c] = "closed") =>
            \A o \in Conns \ {c} :
                /\ \A n \in Names : user_senders[n] = o => user_senders'[n] = o
                /\ HasSender(o) => HasSender(o)'
                /\ Active(o) => Active(o)'
                /\ writer'[o] = writer[o]]_vars

\* C9: a first inbound event that is not a text frame takes the session from
\* AwaitingUsername straight to Closed, with the registry unchanged, no channel
\* or write task created and nothing persisted; and a session closed that way
\* is in no registry entry.
C9_NoUsernameNoRegistration ==
    [][\A c \in Conns :
        /\ Took(c, "nonname") =>
                /\ pc[c] = "await_name"
                /\ pc' = [pc EXCEPT ![c] = "closed"]
                /\ user_senders' = user_senders
                /\ writer' = writer
                /\ writer[c] = "none"
                /\ rx_user' = rx_user
                /\ messages' = messages
        /\ (pc'[c] = "closed" /\ writer'[c] = "none") => ~HasSender(c)']_vars

\* A session was closed on its first event while another session is registered
\* and a message is on record.
C9_Witness ==
    \E c \in Conns :
        /\ last = [conn |-> c, kind |-> "nonname", ok |-> FALSE]
        /\ pc[c] = "closed"
        /\ \E o \in Conns \ {c} : HasSender(o)
        /\ messages # <<>>

\* C10: a failed INSERT changes nothing but the table. The failing step leaves
\* the table and every channel as they were and the session Active (a Public
\* sender back in the read loop, a Private sender at the lookup); and the lookup
\* and the not-found notice of a Private message that was not persisted go the
\* way the registry alone decides, queueing the rendered message on the
\* target's channel or the not-found notice on the sender's entry, and no other
\* frame.
C10_RoutingIgnoresPersistence ==
    [][\A c \in Conns :
        /\ (Took(c, "public") /\ ~last'.ok) =>
                /\ messages' = messages
                /\ rx_user' = rx_user
                /\ pc' = pc
        /\ (Took(c, "private") /\ ~last'.ok) =>
                /\ messages' = messages
                /\ rx_user' = rx_user
                /\ pc' = [pc EXCEPT ![c] = "lookup"]
                /\ chat'[c].kind = "Private"
        /\ (pc[c] = "lookup" /\ pc'[c] # "lookup" /\ ~persisted[c]) =>
                LET t == Get(user_senders, chat[c].to)
                IN  \/ /\ poisoned
                       /\ pc'[c] = "panicked"
                       /\ rx_user' = rx_user
                    \/ /\ ~poisoned
                       /\ t # NoConn
                       /\ pc'[c] = "read"
                       /\ IF writer[t] = "running"
                          THEN QueuedOnlyOn(t, to_string(chat[c]))
                          ELSE rx_user' = rx_user
                    \/ /\ ~poisoned
                       /\ t = NoConn
                       /\ pc'[c] = "else"
                       /\ rx_user' = rx_user
        /\ (pc[c] = "else" /\ pc'[c] # "else" /\ ~persisted[c]) =>
                LET own == Get(user_senders, username[c])
                IN  \/ /\ guard_holder = c
                       /\ pc'[c] = "panicked"
                       /\ rx_user' = rx_user
                    \/ /\ guard_holder = NoConn
                       /\ pc'[c] = "read"
                       /\ IF own # NoConn /\ writer[own] = "running"
                          THEN QueuedOnlyOn(own, NotFoundText(chat[c].to))
                          ELSE rx_user' = rx_user]_vars

\* A Private message whose INSERT failed sits in its target's channel, and no
\* record of it is in the table.
C10_Witness ==
    \E c \in Conns :
        /\ last.kind = "private"
        /\ ~last.ok
        /\ pc[last.conn] = "read"
        /\ Len(rx_user[c]) = 1
        /\ messages = <<>>

----------------------------------------------------------------------------
\* What session c produced appears in tags in the order of the inbound frames
\* it was produced from.
InSendOrder(tags, c) ==
    \A i, j \in 1..Len(tags) :
        (i < j /\ tags[i].conn = c /\ tags[j].conn = c)
            => tags[i].frame < tags[j].frame

----------------------------------------------------------------------------
Min(a, b) == IF a < b THEN a ELSE b

\* C12: /history returns the min(10, n) records with the largest ids out of the
\* n records in the table, in strictly descending id order; after 15 inserts
\* these are the 15th, 14th, ..., 6th inserted records.
C12_RecentHistory ==
    result.query = "history" =>
        LET rows == result.rows
            n == Len(messages)
        IN  /\ Len(rows) = Min(HistoryLimit, n)
            /\ \A k \in 1..Len(rows) : rows[k] \in Rows(messages)
            /\ \A k \in 1..(Len(rows) - 1) : rows[k].id > rows[k + 1].id
            /\ \A r \in Rows(messages) :
                    (\A k \in 1..Len(rows) : rows[k] # r)
                        => \A k \in 1..Len(rows) : r.id < rows[k].id
            /\ n = 15 => rows = [k \in 1..10 |-> messages[16 - k]]

\* /history has run on a table of 15 records.
C12_Witness ==
    /\ result.query = "history"
    /\ Len(messages) = 15
    /\ [k \in 1..10 |-> result.rows[k].id] =
           <<15, 14, 13, 12, 11, 10, 9, 8, 7, 6>>

----------------------------------------------------------------------------
\* kw occurs in s as a substring, up to the case of ASCII letters.
ContainsFolded(s, kw) ==
    \E i \in 0..(Len(s) - Len(kw)) :
        \A j \in 1..Len(kw) : Fold(s[i + j]) = Fold(kw[j])

\* C13: /search returns only records whose content contains the keyword as a
\* substring, in descending id order, at most 10 of them, the most recent
\* matching ones, and no rows when no record matches.
C13_SearchMatchesSubstring ==
    result.query = "search" =>
        LET rows == result.rows
            matching == {r \in Rows(messages) :
                            ContainsFolded(r.content, result.keyword)}
        IN  /\ \A k \in 1..Len(rows) : rows[k] \in matching
            /\ \A k \in 1..(Len(rows) - 1) : rows[k].id > rows[k + 1].id
            /\ Len(rows) = Min(SearchLimit, Cardinality(matching))
            /\ \A r \in matching :
                    (\A k \in 1..Len(rows) : rows[k] # r)
                        => \A k \in 1..Len(rows) : r.id < rows[k].id

----------------------------------------------------------------------------
NonBlank(s) == Trim(s) # <<>>

\* C14: every Public or Private event built, and every record logged, has its
\* from, its to (when Private) and its content non-empty after trimming,
\* whatever the username frame and the inbound text were.
C14_FieldsNonEmpty ==
    /\ \A c \in Conns :
            chat[c] # NoChat =>
                /\ NonBlank(chat[c].from)
                /\ NonBlank(chat[c].to)
                /\ NonBlank(chat[c].content)
    /\ \A i \in 1..Len(messages) :
            /\ NonBlank(messages[i].from_user)
            /\ NonBlank(messages[i].content)
            /\ messages[i].is_private = 1 => NonBlank(messages[i].to_user)

----------------------------------------------------------------------------
\* The text starts with "/msg " and has no space after the target.
NoSecondToken(text) ==
    /\ StartsWith(text, MsgPrefix)
    /\ \A i \in (Len(MsgPrefix) + 1)..Len(text) : text[i] # " "

\* C15: a text frame that starts with "/msg " and has no second token is taken
\* as neither a Public nor a Private message, and the step that takes it appends
\* no record, queues no frame, leaves the map and every ChatMessage alone, and
\* leaves the session in its read loop.
C15_MalformedDropped ==
    [][/\ \A c \in Conns, text \in Texts :
              (NoSecondToken(text) /\ CanRead(c)) =>
                  /\ ENABLED RecvMalformed(c, text)
                  /\ \A ok \in BOOLEAN :
                         /\ ~ENABLED RecvPublic(c, text, ok)
                         /\ ~ENABLED RecvPrivate(c, text, ok)
       /\ \A c \in Conns :
              Took(c, "malformed") =>
                  /\ messages' = messages
                  /\ rx_user' = rx_user
                  /\ ws_out' = ws_out
                  /\ user_senders' = user_senders
                  /\ chat' = chat
                  /\ writer' = writer
                  /\ pc' = pc
                  /\ Active(c)']_vars

\* A session has just taken such a frame and is in its read loop.
C15_Witness ==
    /\ last.kind = "malformed"
    /\ pc[last.conn] = "read"
    /\ \E text \in Texts : NoSecondToken(text)

----------------------------------------------------------------------------
\* The INSERTs made so far for the ChatMessage session c holds: the records
\* with its timestamp (the clock ticks with every frame).
RecordsOf(c) ==
    {i \in 1..Len(messages) : messages[i].timestamp = chat[c].timestamp}

\* One INSERT has been attempted for it: its record is there, once, unless the
\* INSERT failed.
AttemptedOnce(c) ==
    /\ chat[c] # NoChat
    /\ Cardinality(RecordsOf(c)) = IF persisted[c] THEN 1 ELSE 0
    /\ persisted[c] => Recorded(chat[c])

\* C16: for every Public or Private message built, log_to_db is called exactly
\* once, in the step that builds it and before any frame of it is queued; a
\* step that queues a frame is the step of a session whose message has had its
\* INSERT attempted, and makes no INSERT.
C16_AppendBeforeEnqueue ==
    [][\A c \in Conns :
        /\ Took(c, "public") =>
               /\ rx_user' = rx_user
               /\ IF last'.ok
                  THEN /\ Len(messages') = Len(messages) + 1
                       /\ SubSeq(messages', 1, Len(messages)) = messages
                       /\ messages'[Len(messages')].is_private = 0
                       /\ messages'[Len(messages')].from_user = username[c]
                       /\ messages'[Len(messages')].timestamp =
                              FormatNow(frames_read)
                  ELSE messages' = messages
        /\ Took(c, "private") =>
               /\ rx_user' = rx_user
               /\ chat'[c].kind = "Private"
               /\ messages' = log_to_db(chat'[c], messages, last'.ok)
               /\ persisted'[c] = last'.ok
        /\ pc[c] \in {"lookup", "else"} => AttemptedOnce(c)
        /\ (\E r \in Conns : Len(rx_user'[r]) > Len(rx_user[r])) =>
               /\ messages' = messages
               /\ \E s \in Conns :
                      /\ pc[s] \in {"lookup", "else"}
                      /\ pc'[s] = "read"
                      /\ AttemptedOnce(s)]_vars

\* A Private message's frame is on a channel and its record, logged before, is
\* in the table.
C16_Witness ==
    \E r \in Conns :
        /\ rx_user[r] # <<>>
        /\ \E k \in 1..Len(messages) :
               /\ origin.msg[k] = origin.rx[r][1]
               /\ messages[k].is_private = 1
               /\ rx_user[r][1] =
                      to_string(Private(messages[k].from_user,
                                        messages[k].to_user,
                                        messages[k].content,
                                        messages[k].timestamp))

----------------------------------------------------------------------------
\* C17: no session tries to take the user_senders lock while it holds it: a
\* session about to lock the map in the else branch does not hold the guard of
\* the lookup.
C17_NoSelfRelock ==
    \A c \in Conns : pc[c] = "else" => guard_holder # c

\* C18: the accept loop waits on nothing but accept: while the server runs, a
\* further connection can be accepted, whatever the handshakes and sessions of
\* the connections accepted before are doing.
C18_AcceptNeverBlocked ==
    (Running /\ nconn < MaxConn) => ENABLED Accept

\* C19: the table only grows and holds only chat messages: a step leaves the
\* table alone or appends one record, with an id above every id there, to the
\* unchanged records; the step that appends is a session's taking a Public or
\* Private message whose INSERT succeeds, and the record is that message's (no
\* to_user and is_private = 0, or a to_user and is_private = 1); the step that
\* sends a System notice appends nothing.
C19_LogOnlyGrows ==
    [][LET n == Len(messages)
           logs == \E c \in Conns :
                      (Took(c, "public") \/ Took(c, "private")) /\ last'.ok
       IN  /\ logs => Len(messages') = n + 1
           /\ ~logs => messages' = messages
           /\ messages' # messages =>
                  LET new == messages'[Len(messages')]
                  IN  /\ Len(messages') = n + 1
                      /\ SubSeq(messages', 1, n) = messages
                      /\ \A i \in 1..n : messages[i].id < new.id
                      /\ new.from_user = username[last'.conn]
                      /\ new.timestamp = FormatNow(frames_read)
                      /\ \/ /\ last'.kind = "public"
                            /\ new.to_user = NULL
                            /\ new.is_private = 0
                         \/ /\ last'.kind = "private"
                            /\ new.to_user = chat'[last'.conn].to
                            /\ new.to_user # NULL
                            /\ new.content = chat'[last'.conn].content
                            /\ new.is_private = 1]_vars

\* The table holds a Public and a Private record, and a System notice has been
\* queued.
C19_Witness ==
    /\ \E i, j \in 1..Len(messages) :
           messages[i].is_private = 0 /\ messages[j].is_private = 1
    /\ \E r \in Conns, t \in Names :
           \E k \in 1..Len(rx_user[r]) :
               rx_user[r][k] = to_string(System(NotFoundText(t)))

\* The steps session c's task takes by itself, with no frame from its client.
SessionStepEnabled(c) ==
    \/ ENABLED LookupFound(c)
    \/ ENABLED (\E b \in Builds : LookupAbsent(c, b))
    \/ ENABLED NotifySender(c)
    \/ ENABLED RelockPanic(c)
    \/ ENABLED LockPoisoned(c)
    \/ ENABLED Teardown(c)

\* C20: a state in which a session's write task has exited while the session
\* is in its read loop and in the map is not stable: the session's task goes
\* on by itself towards teardown.
C20_WriteFailureTearsDown ==
    \A c \in Conns :
        (/\ writer[c] = "exited"
         /\ Active(c)
         /\ user_senders[username[c]] = c
         /\ Running
         /\ LockFree) => SessionStepEnabled(c)

====
